---- MODULE Spec2Model ----
(***************************************************************************)
(* Model of provider-rust-kafka/src/main.rs: the event factory             *)
(* (create_event, increment_version) and the publisher                     *)
(* (ProductEventService::publish/create/update/delete and the HTTP         *)
(* handlers that call it).                                                 *)
(*                                                                         *)
(* Strings that the code inspects character by character (the version)    *)
(* are sequences of one-character strings; Option<T> is a tagged record.   *)
(* u32 values are pairs <<hi, lo>> of 16-bit limbs, so that the whole u32  *)
(* range, its upper end included, is computed exactly.                     *)
(***************************************************************************)
EXTENDS Integers, Sequences, FiniteSets, TLC

----------------------------------------------------------------------------
\* Bounds of the model.

\* Longest version string enumerated exhaustively over Alphabet.
MaxLen == 3

\* Number of concurrent HTTP requests (handler futures).
NumCalls == 3

\* Number of successive operations on one entity followed in one run.
MaxChain == 6

----------------------------------------------------------------------------
\* Option<T>

None == [tag |-> "None"]

Some(x) == [tag |-> "Some", val |-> x]

----------------------------------------------------------------------------
\* Characters and strings

Digits == {"0", "1", "2", "3", "4", "5", "6", "7", "8", "9"}

DigitVal(c) ==
    CASE c = "0" -> 0 [] c = "1" -> 1 [] c = "2" -> 2 [] c = "3" -> 3
      [] c = "4" -> 4 [] c = "5" -> 5 [] c = "6" -> 6 [] c = "7" -> 7
      [] c = "8" -> 8 [] c = "9" -> 9

DigitChar(d) ==
    CASE d = 0 -> "0" [] d = 1 -> "1" [] d = 2 -> "2" [] d = 3 -> "3"
      [] d = 4 -> "4" [] d = 5 -> "5" [] d = 6 -> "6" [] d = 7 -> "7"
      [] d = 8 -> "8" [] d = 9 -> "9"

\* Number of bytes of a character in UTF-8 (Rust strings are UTF-8 and
\* v[1..] slices by byte offset).
Utf8Len(c) == IF c = "é" THEN 2 ELSE 1

----------------------------------------------------------------------------
\* u32 arithmetic on 16-bit limbs

Limb == 65536

U32Zero == <<0, 0>>

U32Max == <<Limb - 1, Limb - 1>>

\* checked_mul(10) followed by checked_add(d): the value, or overflow.
U32MulAdd(n, d) ==
    LET lo == n[2] * 10 + d
        hi == n[1] * 10 + (lo \div Limb)
    IN  IF hi >= Limb
        THEN [ok |-> FALSE, val |-> U32Zero]
        ELSE [ok |-> TRUE, val |-> <<hi, lo % Limb>>]

\* n + 1 modulo 2^32 (what `num + 1` computes when overflow checks are off).
U32WrappingSucc(n) ==
    IF n[2] + 1 < Limb THEN <<n[1], n[2] + 1>>
    ELSE IF n[1] + 1 < Limb THEN <<n[1] + 1, 0>>
    ELSE U32Zero

\* n divided by 10: quotient and remainder.
U32DivMod10(n) ==
    LET r1  == n[1] % 10
        mid == r1 * Limb + n[2]
    IN  [quot |-> <<n[1] \div 10, mid \div 10>>, rem |-> mid % 10]

----------------------------------------------------------------------------
\* <u32 as FromStr>::from_str, used by `v[1..].parse()` (main.rs line 97)

RECURSIVE ParseDigits(_, _)
ParseDigits(s, acc) ==
    IF s = <<>> THEN [ok |-> TRUE, val |-> acc, err |-> "none"]
    ELSE IF Head(s) \notin Digits
         THEN [ok |-> FALSE, val |-> U32Zero, err |-> "InvalidDigit"]
    ELSE LET n == U32MulAdd(acc, DigitVal(Head(s)))
         IN  IF ~n.ok
             THEN [ok |-> FALSE, val |-> U32Zero, err |-> "PosOverflow"]
             ELSE ParseDigits(Tail(s), n.val)

\* An empty string is an error; one leading "+" is accepted when digits
\* follow; "-" is not accepted by an unsigned type.
ParseU32(s) ==
    IF s = <<>> THEN [ok |-> FALSE, val |-> U32Zero, err |-> "Empty"]
    ELSE IF Len(s) = 1 /\ Head(s) \in {"+", "-"}
         THEN [ok |-> FALSE, val |-> U32Zero, err |-> "InvalidDigit"]
    ELSE IF Head(s) = "+" THEN ParseDigits(Tail(s), U32Zero)
    ELSE ParseDigits(s, U32Zero)

\* Display for u32, used by format!("v{}", ...) (main.rs line 98)
RECURSIVE FmtDigits(_, _)
FmtDigits(n, acc) ==
    IF n = U32Zero THEN acc
    ELSE LET qr == U32DivMod10(n)
         IN  FmtDigits(qr.quot, <<DigitChar(qr.rem)>> \o acc)

FmtU32(n) == IF n = U32Zero THEN <<"0">> ELSE FmtDigits(n, <<>>)

----------------------------------------------------------------------------
\* increment_version (main.rs lines 94-102)

Panic(why) == [kind |-> "panic", why |-> why]

\* v[1..]: panics when byte offset 1 is past the end of the string or is
\* not a character boundary.
SliceFrom1(v) ==
    IF v = <<>> \/ Utf8Len(Head(v)) > 1
    THEN [ok |-> FALSE, val |-> <<>>]
    ELSE [ok |-> TRUE, val |-> Tail(v)]

\* `num + 1` on u32: a panic when the build checks overflow (debug
\* profile), the wrapped value otherwise (release profile).
AddOne(num, overflowChecks) ==
    IF num = U32Max /\ overflowChecks
    THEN [ok |-> FALSE, val |-> U32Zero]
    ELSE [ok |-> TRUE, val |-> U32WrappingSucc(num)]

\* A plausible slip: the first version is numbered from zero.
increment_version_from_zero(version, overflowChecks) ==
    IF version = None THEN [kind |-> "ok", val |-> <<"v", "0">>]
    ELSE LET sl == SliceFrom1(version.val)
         IN  IF ~sl.ok THEN Panic("slice")
             ELSE LET num == ParseU32(sl.val)
                  IN  IF ~num.ok THEN Panic("unwrap ParseIntError")
                      ELSE LET sum == AddOne(num.val, overflowChecks)
                           IN  IF ~sum.ok THEN Panic("add overflow")
                               ELSE [kind |-> "ok",
                                     val  |-> <<"v">> \o FmtU32(sum.val)]

increment_version(version, overflowChecks) ==
    IF version = None THEN [kind |-> "ok", val |-> <<"v", "1">>]
    ELSE LET sl == SliceFrom1(version.val)
         IN  IF ~sl.ok THEN Panic("slice")
             ELSE LET num == ParseU32(sl.val)
                  IN  IF ~num.ok THEN Panic("unwrap ParseIntError")
                      ELSE LET sum == AddOne(num.val, overflowChecks)
                           IN  IF ~sum.ok THEN Panic("add overflow")
                               ELSE [kind |-> "ok",
                                     val  |-> <<"v">> \o FmtU32(sum.val)]

----------------------------------------------------------------------------
\* create_event (main.rs lines 29-40).  uuid is the value that
\* uuid::Uuid::new_v4().to_string() yields if it is called.

\* A plausible slip: the event type is inferred from the snapshot (a
\* snapshot without version is taken for a creation).
create_event_infers_type(product, event_type, uuid, overflowChecks) ==
    LET version == increment_version(product.version, overflowChecks)
    IN  IF version.kind = "panic" THEN version
        ELSE [kind  |-> "ok",
              val   |-> [id      |-> IF product.id = None THEN uuid
                                     ELSE product.id.val,
                         name    |-> product.name,
                         type    |-> product.type,
                         event   |-> IF product.version = None
                                     THEN "CREATED" ELSE event_type,
                         version |-> version.val]]

\* A plausible slip: every event gets a fresh identifier.
create_event_fresh_id(product, event_type, uuid, overflowChecks) ==
    LET version == increment_version(product.version, overflowChecks)
    IN  IF version.kind = "panic" THEN version
        ELSE [kind  |-> "ok",
              val   |-> [id      |-> uuid,
                         name    |-> product.name,
                         type    |-> product.type,
                         event   |-> event_type,
                         version |-> version.val]]

create_event(product, event_type, uuid, overflowChecks) ==
    LET version == increment_version(product.version, overflowChecks)
    IN  IF version.kind = "panic" THEN version
        ELSE [kind  |-> "ok",
              val   |-> [id      |-> IF product.id = None THEN uuid
                                     ELSE product.id.val,
                         name    |-> product.name,
                         type    |-> product.type,
                         event   |-> event_type,
                         version |-> version.val]]

----------------------------------------------------------------------------
\* serde_json::to_string(&event) (main.rs line 69): the JSON object's
\* members in the order of ProductEvent's fields (main.rs lines 16-22).

to_string(event) ==
    << <<"id", event.id>>, <<"name", event.name>>, <<"type", event.type>>,
       <<"version", event.version>>, <<"event", event.event>> >>

----------------------------------------------------------------------------
\* Inputs

Calls == 1..NumCalls

\* uuid::Uuid::new_v4().to_string(): a random, non-empty string; the n-th
\* one generated differs from the others.
UuidOf(n) ==
    CASE n = 1 -> "uuid-1" [] n = 2 -> "uuid-2" [] n = 3 -> "uuid-3"
      [] n = 4 -> "uuid-4" [] OTHER -> "uuid-5"

Uuids == {UuidOf(1), UuidOf(2)}

\* The event_type literal of each operation (main.rs lines 79, 84, 89).
EventTypeOf(op) ==
    CASE op = "create" -> "CREATED"
      [] op = "update" -> "UPDATED"
      [] op = "delete" -> "DELETED"

Ops == {"create", "update", "delete"}

\* The build profiles: whether `num + 1` checks for overflow (debug) or
\* wraps (release).  Either build can be the one that runs.
OverflowChecks == BOOLEAN

\* The status of the response each handler builds after the call returns
\* (main.rs lines 109, 117, 125).
StatusOf(op) == IF op = "create" THEN 201 ELSE 200

Product(id, name, type, version) ==
    [id |-> id, name |-> name, type |-> type, version |-> version]

\* Requests of the concurrent specification: a creation of a new product,
\* an update of a versioned one, a deletion with a malformed version.
Requests ==
    { [op |-> "create", product |-> Product(None, "Widget", "Gadget", None)],
      [op |-> "update",
       product |-> Product(Some("p1"), "Widget", "Gadget", Some(<<"v", "3">>))],
      [op |-> "delete",
       product |-> Product(Some("p1"), "Widget", "Gadget",
                           Some(<<"v", "e", "r">>))] }

NoEvent == [kind |-> "none"]

----------------------------------------------------------------------------
\* State

VARIABLES
    pc,             \* pc[c]: where the handler future of request c is
    req,            \* req[c]: the operation and snapshot of request c
    built,          \* built[c]: the outcome of create_event for c
    response,       \* response[c]: HTTP status the handler returned, 0 if none
    holder,         \* the call owning the tokio Mutex, 0 if free
    waiters,        \* the Mutex's FIFO queue of waiting lock() futures
    clientQueue,    \* messages handed to the producer, not yet answered
    delivery,       \* delivery[c]: the result of c's send future
    topic,          \* the messages appended to the topic, in order
    lockReqs,       \* history: calls in order of their lock() request
    acquired,       \* history: calls in order of lock acquisition
    submitted,      \* history: messages in order of producer.send
    fIn,            \* factory harness: the last input of create_event
    fOut,           \* factory harness: its outcome
    chainCount,     \* operation chain: events produced so far, in decimal
    chainSteps      \* operation chain: operations made in this run

pubVars == <<pc, req, built, response, holder, waiters, clientQueue,
             delivery, topic, lockReqs, acquired, submitted>>

chainVars == <<chainCount, chainSteps>>

vars == <<pubVars, fIn, fOut, chainVars>>

NoRequest == [op |-> "none"]

Init ==
    /\ pc = [c \in Calls |-> "idle"]
    /\ req = [c \in Calls |-> NoRequest]
    /\ built = [c \in Calls |-> NoEvent]
    /\ response = [c \in Calls |-> 0]
    /\ holder = 0
    /\ waiters = <<>>
    /\ clientQueue = <<>>
    /\ delivery = [c \in Calls |-> "none"]
    /\ topic = <<>>
    /\ lockReqs = <<>>
    /\ acquired = <<>>
    /\ submitted = <<>>
    /\ fIn = NoRequest
    /\ fOut = NoEvent
    /\ chainCount = <<"0">>
    /\ chainSteps = 0

----------------------------------------------------------------------------
\* tokio::sync::Mutex (main.rs lines 6, 25, 50, 71): a fair lock whose
\* release hands the lock to the longest-waiting lock() future.

\* A plausible slip: lock() that never waits (no mutual exclusion).
MutexFreeAlways(h, w) == TRUE

\* lock() succeeds at once when the lock is free and nobody waits.
MutexFree(h, w) == h = 0 /\ w = <<>>

\* A plausible slip: the most recent waiter is served first.
MutexPickLast(w) == Len(w)

\* The position in the queue of the waiter a release hands the lock to:
\* the front, the queue being first in, first out.
MutexPick(w) == 1

MutexNext(w) == w[MutexPick(w)]

MutexRest(w) == [i \in 1..(Len(w) - 1) |->
                    IF i < MutexPick(w) THEN w[i] ELSE w[i + 1]]

\* Dropping the MutexGuard (end of publish, unwinding, or the future
\* being dropped): the state of the lock and of the calls afterwards.
Unlock ==
    IF waiters = <<>>
    THEN /\ holder' = 0
         /\ waiters' = waiters
         /\ acquired' = acquired
    ELSE /\ holder' = MutexNext(waiters)
         /\ waiters' = MutexRest(waiters)
         /\ acquired' = Append(acquired, MutexNext(waiters))

\* A plausible slip: the waiter that is handed the lock is not woken.
PcAfterUnlockNoWake(c, to) == [pc EXCEPT ![c] = to]

\* pc after call c moved to `to` and released the lock.
PcAfterUnlock(c, to) ==
    IF waiters = <<>>
    THEN [pc EXCEPT ![c] = to]
    ELSE [pc EXCEPT ![c] = to, ![MutexNext(waiters)] = "locked"]

----------------------------------------------------------------------------
\* The publisher: create_product/update_product/delete_product calling
\* ProductEventService::create/update/delete and publish.
\* Calls are numbered in the order in which they are invoked.

ArrivedBefore(a, b) == a < b

\* A plausible slip: the lock is requested before the event is built, so a
\* call that fails in create_event has already queued for the lock.
Invoke_lock_first(c) ==
    /\ pc[c] = "idle"
    /\ \A d \in Calls : ArrivedBefore(d, c) => pc[d] # "idle"
    /\ \E r \in Requests, oc \in OverflowChecks :
          LET out == create_event(r.product, EventTypeOf(r.op), UuidOf(c), oc)
          IN  /\ req' = [req EXCEPT ![c] = r]
              /\ built' = [built EXCEPT ![c] = out]
              /\ pc' = [pc EXCEPT ![c] = IF out.kind = "panic"
                                         THEN "panicked" ELSE "publish"]
              /\ lockReqs' = IF out.kind = "panic" THEN Append(lockReqs, c)
                             ELSE lockReqs
    /\ UNCHANGED <<response, holder, waiters, clientQueue,
                   delivery, topic, acquired, submitted, fIn, fOut, chainVars>>

\* The handler calls service.create/update/delete (main.rs lines 108,
\* 116, 124), which builds the event (lines 79, 84, 89).  A panic of
\* create_event unwinds through the handler; nothing else has happened.
InvokeWith(c, requests) ==
    /\ pc[c] = "idle"
    /\ \A d \in Calls : ArrivedBefore(d, c) => pc[d] # "idle"
    /\ \E r \in requests, oc \in OverflowChecks :
          LET out == create_event(r.product, EventTypeOf(r.op), UuidOf(c), oc)
          IN  /\ req' = [req EXCEPT ![c] = r]
              /\ built' = [built EXCEPT ![c] = out]
              /\ pc' = [pc EXCEPT ![c] = IF out.kind = "panic"
                                         THEN "panicked" ELSE "publish"]
    /\ UNCHANGED <<response, holder, waiters, clientQueue, delivery, topic,
                   lockReqs, acquired, submitted, fIn, fOut, chainVars>>

Invoke(c) == InvokeWith(c, Requests)

\* publish up to `self.producer.lock().await` (main.rs lines 69-71): the
\* lock is taken at once when free, else the future queues and suspends.
publish_lock(c) ==
    /\ pc[c] = "publish"
    /\ lockReqs' = Append(lockReqs, c)
    /\ IF MutexFree(holder, waiters)
       THEN /\ holder' = c
            /\ acquired' = Append(acquired, c)
            /\ pc' = [pc EXCEPT ![c] = "locked"]
            /\ UNCHANGED waiters
       ELSE /\ waiters' = Append(waiters, c)
            /\ pc' = [pc EXCEPT ![c] = "waiting"]
            /\ UNCHANGED <<holder, acquired>>
    /\ UNCHANGED <<req, built, response, clientQueue,
                   delivery, topic, submitted, fIn, fOut, chainVars>>

\* The message of call c as handed to the producer.
Message(c) == [call |-> c, payload |-> to_string(built[c].val)]

\* A plausible slip: the record is handed to the producer a second time.
publish_send_twice(c) ==
    /\ pc[c] = "locked"
    /\ clientQueue' = clientQueue \o <<Message(c), Message(c)>>
    /\ submitted' = submitted \o <<Message(c), Message(c)>>
    /\ pc' = [pc EXCEPT ![c] = "awaiting"]
    /\ UNCHANGED <<req, built, response, holder, waiters,
                   delivery, topic, lockReqs, acquired, fIn, fOut, chainVars>>

\* A plausible slip: the guard is a temporary dropped before the send
\* result is awaited.
publish_send_guard_dropped(c) ==
    /\ pc[c] = "locked"
    /\ clientQueue' = Append(clientQueue, Message(c))
    /\ submitted' = Append(submitted, Message(c))
    /\ Unlock
    /\ pc' = PcAfterUnlock(c, "awaiting")
    /\ UNCHANGED <<req, built, response, delivery, topic,
                   lockReqs, fIn, fOut, chainVars>>

\* producer.send(record, Timeout::Never) (main.rs lines 72-73): the
\* record is handed to the producer; the future then awaits the result.
publish_send(c) ==
    /\ pc[c] = "locked"
    /\ clientQueue' = Append(clientQueue, Message(c))
    /\ submitted' = Append(submitted, Message(c))
    /\ pc' = [pc EXCEPT ![c] = "awaiting"]
    /\ UNCHANGED <<req, built, response, holder, waiters,
                   delivery, topic, lockReqs, acquired, fIn, fOut, chainVars>>

\* The broker accepts the oldest message handed to the producer: it is
\* appended to the topic and the send future of its call resolves to Ok.
BrokerAck ==
    /\ clientQueue # <<>>
    /\ topic' = Append(topic, Head(clientQueue))
    /\ delivery' = [delivery EXCEPT ![Head(clientQueue).call] = "ok"]
    /\ clientQueue' = Tail(clientQueue)
    /\ UNCHANGED <<pc, req, built, response, holder, waiters,
                   lockReqs, acquired, submitted, fIn, fOut, chainVars>>

\* The broker rejects it, or the producer gives up on it: the send future
\* resolves to Err.
BrokerReject ==
    /\ clientQueue # <<>>
    /\ delivery' = [delivery EXCEPT ![Head(clientQueue).call] = "err"]
    /\ clientQueue' = Tail(clientQueue)
    /\ UNCHANGED <<pc, req, built, response, holder, waiters,
                   topic, lockReqs, acquired, submitted, fIn, fOut, chainVars>>

\* A plausible slip: the send future is not awaited (fire and forget), so
\* publish returns before the broker has answered.
publish_return_unacked(c) ==
    /\ pc[c] = "awaiting"
    /\ Unlock
    /\ pc' = PcAfterUnlock(c, "returned")
    /\ UNCHANGED <<req, built, response, clientQueue, delivery, topic,
                   lockReqs, submitted, fIn, fOut, chainVars>>

\* The send future resolved to Ok: unwrap, and the guard is dropped at the
\* end of publish (main.rs lines 74-76).  The call has released the lock
\* but its handler has not answered yet: other workers run in between.
publish_return(c) ==
    /\ pc[c] = "awaiting"
    /\ delivery[c] = "ok"
    /\ Unlock
    /\ pc' = PcAfterUnlock(c, "returned")
    /\ UNCHANGED <<req, built, response, clientQueue, delivery, topic,
                   lockReqs, submitted, fIn, fOut, chainVars>>

\* create/update/delete return the event (lines 80-81, 85-86, 90-91) and
\* the handler builds its answer, 201 or 200 (lines 109, 117, 125).  There
\* is no await point between the return of publish and the answer, so the
\* handler future cannot be dropped here.
handler_respond(c) ==
    /\ pc[c] = "returned"
    /\ pc' = [pc EXCEPT ![c] = "responded"]
    /\ response' = [response EXCEPT ![c] = StatusOf(req[c].op)]
    /\ UNCHANGED <<req, built, holder, waiters, clientQueue, delivery, topic,
                   lockReqs, acquired, submitted, fIn, fOut, chainVars>>

\* A plausible slip: the send result is dropped (`let _ = ...`) instead
\* of unwrapped, and the handler answers as if the send had succeeded.
publish_panic_suppressed(c) ==
    /\ pc[c] = "awaiting"
    /\ delivery[c] = "err"
    /\ Unlock
    /\ pc' = PcAfterUnlock(c, "returned")
    /\ UNCHANGED <<req, built, response, clientQueue, delivery, topic,
                   lockReqs, submitted, fIn, fOut, chainVars>>

\* A plausible slip: the panic leaves the lock held (a poisoned or leaked
\* guard), so nobody is handed the lock.
publish_panic_lock_kept(c) ==
    /\ pc[c] = "awaiting"
    /\ delivery[c] = "err"
    /\ pc' = [pc EXCEPT ![c] = "panicked"]
    /\ UNCHANGED <<req, built, response, holder, waiters, acquired,
                   clientQueue, delivery, topic, lockReqs, submitted,
                   fIn, fOut, chainVars>>

\* The send future resolved to Err: unwrap panics (main.rs line 75); the
\* guard is dropped while unwinding, and the handler never answers.
publish_panic(c) ==
    /\ pc[c] = "awaiting"
    /\ delivery[c] = "err"
    /\ Unlock
    /\ pc' = PcAfterUnlock(c, "panicked")
    /\ UNCHANGED <<req, built, response, clientQueue,
                   delivery, topic, lockReqs, submitted, fIn, fOut, chainVars>>

\* The sequence w without call c.
RECURSIVE Without(_, _)
Without(w, c) ==
    IF w = <<>> THEN <<>>
    ELSE IF Head(w) = c THEN Without(Tail(w), c)
    ELSE <<Head(w)>> \o Without(Tail(w), c)

\* The handler future is dropped at one of its await points (the client
\* disconnected): a queued lock() future leaves the queue, a held guard is
\* dropped.  A message already handed to the producer stays there.
Cancel(c) ==
    /\ pc[c] \in {"waiting", "locked", "awaiting"}
    /\ IF pc[c] = "waiting"
       THEN /\ waiters' = Without(waiters, c)
            /\ pc' = [pc EXCEPT ![c] = "cancelled"]
            /\ UNCHANGED <<holder, acquired>>
       ELSE /\ Unlock
            /\ pc' = PcAfterUnlock(c, "cancelled")
    /\ UNCHANGED <<req, built, response, clientQueue,
                   delivery, topic, lockReqs, submitted, fIn, fOut, chainVars>>

Next ==
    \/ \E c \in Calls : Invoke(c)
    \/ \E c \in Calls : publish_lock(c)
    \/ \E c \in Calls : publish_send(c)
    \/ BrokerAck
    \/ BrokerReject
    \/ \E c \in Calls : publish_return(c)
    \/ \E c \in Calls : handler_respond(c)
    \/ \E c \in Calls : publish_panic(c)
    \/ \E c \in Calls : Cancel(c)

Spec == Init /\ [][Next]_vars

----------------------------------------------------------------------------
\* The event factory on its own: one call of create_event, as the message
\* proxy of the tests makes it (main.rs lines 200-207), on any snapshot.

Alphabet == {"v", "x", "0", "1", "9", "+", "-", "é"}

RECURSIVE StringsOfLen(_)
StringsOfLen(n) ==
    IF n = 0 THEN {<<>>}
    ELSE {<<a>> \o s : a \in Alphabet, s \in StringsOfLen(n - 1)}

\* Version strings at the ends of the u32 range, and those the
\* specification names.
BoundaryVersions ==
    { <<"v", "4", "2", "9", "4", "9", "6", "7", "2", "9", "4">>,
      <<"v", "4", "2", "9", "4", "9", "6", "7", "2", "9", "5">>,
      <<"v", "4", "2", "9", "4", "9", "6", "7", "2", "9", "6">>,
      <<"v", "e", "r", "s", "i", "o", "n", "2">>,
      <<"v", "6", "5", "5", "3", "5">>,
      <<"x", "5">>, <<"v", "+", "5">> }

Versions ==
    {None} \cup {Some(s) : s \in UNION {StringsOfLen(n) : n \in 0..MaxLen}}
           \cup {Some(s) : s \in BoundaryVersions}

Identities == {None, Some(""), Some("p1")}

FactoryCall ==
    /\ fIn = NoRequest
    /\ \E id \in Identities, version \in Versions, op \in Ops, u \in Uuids,
          oc \in OverflowChecks :
          LET product == Product(id, "Widget", "Gadget", version)
          IN  /\ fIn' = [op |-> op, product |-> product, uuid |-> u,
                         overflowChecks |-> oc]
              /\ fOut' = create_event(product, EventTypeOf(op), u, oc)
    /\ UNCHANGED <<pubVars, chainVars>>

NextF == FactoryCall

SpecF == Init /\ [][NextF]_vars

----------------------------------------------------------------------------
\* Helpers of the properties

\* The position of call c in a history of calls (0 if absent).
RECURSIVE PosIn(_, _)
PosIn(h, c) ==
    IF h = <<>> THEN 0
    ELSE IF h[Len(h)] = c THEN Len(h)
    ELSE PosIn(SubSeq(h, 1, Len(h) - 1), c)

\* The calls of a history of messages.
CallsOf(ms) == [i \in DOMAIN ms |-> ms[i].call]

\* How many messages of the history are of call c.
CountOf(ms, c) == Cardinality({i \in DOMAIN ms : ms[i].call = c})

\* Does history h list its calls in the order of history g.
InOrderOf(h, g) ==
    \A i, j \in DOMAIN h : i < j => PosIn(g, h[i]) < PosIn(g, h[j])

Ended(c) == pc[c] \in {"responded", "panicked", "cancelled"}

Holding(c) == pc[c] \in {"locked", "awaiting"}

----------------------------------------------------------------------------
\* C1 (as stated): of two calls whose messages were both submitted, the
\* one invoked first was submitted first.  Stated for the runs in which no
\* request was dropped and no call failed, where it fails all the same.
C1_ArrivalOrderIsSubmissionOrder ==
    (\A c \in Calls : pc[c] \notin {"cancelled", "panicked"}) =>
        \A i, j \in DOMAIN submitted :
            ArrivedBefore(submitted[i].call, submitted[j].call) => i < j

\* C1 (amended): messages are submitted in the order in which their calls
\* requested the lock (reached self.producer.lock()), which need not be the
\* order in which the calls were invoked.
C1_LockRequestOrderIsSubmissionOrder ==
    InOrderOf(CallsOf(submitted), lockReqs)

\* Three calls requested the lock in an order that is not the order of
\* their invocation, two of them queued behind the holder, and all three
\* messages were submitted.
C1_Witness ==
    /\ Len(submitted) >= 3
    /\ \E i, j \in DOMAIN lockReqs :
          i < j /\ ArrivedBefore(lockReqs[j], lockReqs[i])

\* C2: the messages are handed to the producer, and appended to the topic,
\* in the order in which their calls acquired the lock.
C2_AcquisitionOrderIsDeliveryOrder ==
    /\ InOrderOf(CallsOf(submitted), acquired)
    /\ InOrderOf(CallsOf(topic), acquired)

\* Three calls, each completed before the next acquired the lock, have
\* their three messages on the topic.
C2_Witness ==
    /\ Len(topic) >= 3
    /\ \A c \in {topic[i].call : i \in DOMAIN topic} : pc[c] = "responded"

\* C3: at most one call is between acquiring the lock and releasing it,
\* and that call is the owner of the lock; so only the owner can send.
C3_MutualExclusion ==
    /\ \A a, b \in Calls : Holding(a) /\ Holding(b) => a = b
    /\ \A c \in Calls : Holding(c) => holder = c

\* A call awaits its send result while two others wait for the lock.
C3_Witness ==
    /\ \E c \in Calls : pc[c] = "awaiting" /\ holder = c
    /\ Len(waiters) >= 2

\* The message of call c on the topic is the event of c's snapshot and
\* operation, in the wire encoding.
IsEventOf(m, c) ==
    /\ m.call = c
    /\ built[c].kind = "ok"
    /\ m.payload = to_string(built[c].val)
    /\ m.payload[2] = <<"name", req[c].product.name>>
    /\ m.payload[3] = <<"type", req[c].product.type>>
    /\ m.payload[5] = <<"event", EventTypeOf(req[c].op)>>
    /\ req[c].product.id # None => m.payload[1] = <<"id", req[c].product.id.val>>

\* C4 (as stated): every call that has ended appended exactly one message
\* to the topic.  Stated for the calls whose event was built and whose
\* request was not dropped, where it fails all the same.
C4_EveryCallDeliversExactlyOnce ==
    \A c \in Calls :
        pc[c] \in {"returned", "responded", "panicked"} /\ built[c].kind = "ok"
            => CountOf(topic, c) = 1

\* C4 (amended): a call that returns has appended exactly one message, the
\* event built from its snapshot and operation; a call that fails (the
\* factory or the send result panics) has appended none; no call hands
\* more than one message to the producer or appends more than one.
C4_ReturnedCallsDeliverExactlyOnce ==
    \A c \in Calls :
        /\ CountOf(submitted, c) <= 1
        /\ CountOf(topic, c) <= CountOf(submitted, c)
        /\ pc[c] \in {"returned", "responded"} =>
              /\ CountOf(topic, c) = 1
              /\ \A i \in DOMAIN topic :
                    topic[i].call = c => IsEventOf(topic[i], c)
        /\ pc[c] = "panicked" => CountOf(topic, c) = 0

\* One call returned with its message on the topic, another failed on a
\* rejected send and left nothing there.
C4_Witness ==
    /\ \E c \in Calls : pc[c] = "responded" /\ CountOf(topic, c) = 1
    /\ \E c \in Calls :
          pc[c] = "panicked" /\ delivery[c] = "err" /\ CountOf(topic, c) = 0

----------------------------------------------------------------------------
\* The event factory (checked under SpecF)

\* The character 'v' followed by one or more decimal digits.
IsVDigits(v) ==
    /\ Len(v) >= 2
    /\ v[1] = "v"
    /\ \A i \in 2..Len(v) : v[i] \in Digits

\* "vN" for a positive integer N in decimal notation.
IsVPositive(v) == IsVDigits(v) /\ v[2] # "0"

\* The decimal notation of N + 1 from that of N, digit by digit.
RECURSIVE DecSucc(_)
DecSucc(d) ==
    IF d = <<>> THEN <<"1">>
    ELSE LET front == SubSeq(d, 1, Len(d) - 1)
             last  == d[Len(d)]
         IN  IF last = "9" THEN DecSucc(front) \o <<"0">>
             ELSE front \o <<DigitChar(DigitVal(last) + 1)>>

FactoryCalled == fOut # NoEvent

\* C5: a snapshot whose version is present and malformed makes the factory
\* return a MalformedVersion error: neither a panic nor an event.
C5_MalformedVersionIsAnError ==
    (FactoryCalled /\ fIn.product.version # None
                   /\ ~IsVDigits(fIn.product.version.val))
        => fOut.kind = "MalformedVersion"

\* C6: the factory produces an event only when the version is absent or is
\* 'v' followed by one or more decimal digits.
C6_OnlyVDigitsAccepted ==
    (FactoryCalled /\ fOut.kind = "ok")
        => \/ fIn.product.version = None
           \/ IsVDigits(fIn.product.version.val)

\* C7: for a snapshot of version "vN", N a positive integer, the factory
\* produces an event of version "v(N+1)".
C7_VersionIsIncremented ==
    (FactoryCalled /\ fIn.product.version # None
                   /\ IsVPositive(fIn.product.version.val))
        => /\ fOut.kind = "ok"
           /\ fOut.val.version
                 = <<"v">> \o DecSucc(Tail(fIn.product.version.val))

\* C8: every event the factory emits has a non-empty identity.
C8_IdentityIsNeverEmpty ==
    (FactoryCalled /\ fOut.kind = "ok") => fOut.val.id # ""

----------------------------------------------------------------------------
\* Failures and cancellation (checked under Spec)

\* C9: a call whose send was rejected never gets a success response: once
\* it has seen the result it has failed (the panic of unwrap unwinds
\* through create/update/delete into the handler); its message was handed
\* to the producer once, not again, and is not on the topic.
C9_SendFailureIsNotSuppressed ==
    \A c \in Calls :
        delivery[c] = "err" =>
            /\ pc[c] \in {"awaiting", "panicked", "cancelled"}
            /\ response[c] = 0
            /\ CountOf(submitted, c) = 1
            /\ CountOf(topic, c) = 0

\* A call has failed on a rejected send while a later call, which waited
\* for the lock behind it, got its success response.
C9_Witness ==
    \E c, d \in Calls :
        /\ pc[c] = "panicked" /\ delivery[c] = "err" /\ response[c] = 0
        /\ pc[d] = "responded" /\ PosIn(acquired, c) < PosIn(acquired, d)

\* Nothing is left to happen for call c: the producer holds no unanswered
\* message and every other call that was made has returned.
QuiescentBut(c) ==
    /\ clientQueue = <<>>
    /\ \A d \in Calls \ {c} : pc[d] \in {"idle", "responded"}

\* C10: a call cancelled while it waited for the lock (it started publish
\* and never acquired the lock) still has its message delivered: when
\* nothing is left to happen, the message has been handed to the producer.
C10_CancelledWaiterIsStillDelivered ==
    \A c \in Calls :
        (pc[c] = "cancelled" /\ PosIn(lockReqs, c) > 0
                             /\ PosIn(acquired, c) = 0 /\ QuiescentBut(c))
            => CountOf(submitted, c) = 1

----------------------------------------------------------------------------
\* C11: a call returns from publish, and later its handler answers 201
\* (create) or 200 (update, delete), only in a step before which the broker
\* has already acknowledged its message; no step completes a call whose
\* send result has not arrived (there is no timeout).
C11_AckPrecedesReturn ==
    [][\A c \in Calls :
          /\ (pc[c] # "returned" /\ pc'[c] = "returned") =>
                /\ pc[c] = "awaiting"
                /\ delivery[c] = "ok"
                /\ CountOf(topic, c) = 1
          /\ (response[c] = 0 /\ response'[c] # 0) =>
                /\ pc[c] = "returned" /\ pc'[c] = "responded"
                /\ delivery[c] = "ok"
                /\ CountOf(topic, c) = 1
                /\ response'[c] = IF req[c].op = "create" THEN 201
                                                          ELSE 200]_vars

\* A create has been answered 201 and an update 200, both acknowledged.
C11_Witness ==
    \E c, d \in Calls :
        /\ response[c] = 201 /\ req[c].op = "create" /\ delivery[c] = "ok"
        /\ response[d] = 200 /\ req[d].op = "update" /\ delivery[d] = "ok"

----------------------------------------------------------------------------
\* C12: the event type of an emitted event is CREATED for create, UPDATED
\* for update and DELETED for delete, whatever the snapshot holds.
C12_EventTypeIsTheOperation ==
    (FactoryCalled /\ fOut.kind = "ok") =>
        /\ fIn.op = "create" => fOut.val.event = "CREATED"
        /\ fIn.op = "update" => fOut.val.event = "UPDATED"
        /\ fIn.op = "delete" => fOut.val.event = "DELETED"

\* A delete of a snapshot with neither identity nor version (which looks
\* like a new product) yields a DELETED event.
C12_Witness ==
    /\ FactoryCalled /\ fOut.kind = "ok"
    /\ fIn.op = "delete"
    /\ fIn.product.id = None /\ fIn.product.version = None
    /\ fOut.val.event = "DELETED"

\* C13: when the snapshot carries an identity, the event has exactly that
\* identity, not a generated one.
C13_IdentityIsReused ==
    (FactoryCalled /\ fOut.kind = "ok" /\ fIn.product.id # None) =>
        /\ fOut.val.id = fIn.product.id.val
        /\ fOut.val.id # fIn.uuid

\* An update of "p1" at version "v9" yields an event of identity "p1".
C13_Witness ==
    /\ FactoryCalled /\ fOut.kind = "ok"
    /\ fIn.op = "update"
    /\ fIn.product.id = Some("p1")
    /\ fIn.product.version = Some(<<"v", "9">>)
    /\ fOut.val.id = "p1"

\* C15: a snapshot with no version yields an event of version "v1", for
\* every operation and identity.
C15_NoVersionYieldsV1 ==
    (FactoryCalled /\ fIn.product.version = None) =>
        /\ fOut.kind = "ok"
        /\ fOut.val.version = <<"v", "1">>

\* A delete of a snapshot with an empty identity and no version yields
\* version "v1".
C15_Witness ==
    /\ FactoryCalled /\ fOut.kind = "ok"
    /\ fIn.op = "delete"
    /\ fIn.product.id = Some("") /\ fIn.product.version = None
    /\ fOut.val.version = <<"v", "1">>

----------------------------------------------------------------------------
\* Successive operations on one entity (checked under SpecChain): the first
\* snapshot has no version, each later one carries the identity and the
\* version of the event produced before it.  A run follows MaxChain
\* operations of the chain, from its start or from its 4294967293rd event,
\* where the version is "v4294967293".

LateCount == <<"4", "2", "9", "4", "9", "6", "7", "2", "9", "3">>

LateEvent ==
    [kind |-> "ok",
     val  |-> [id |-> "p1", name |-> "Widget", type |-> "Gadget",
               event |-> "UPDATED", version |-> <<"v">> \o LateCount]]

InitChain ==
    /\ pc = [c \in Calls |-> "idle"]
    /\ req = [c \in Calls |-> NoRequest]
    /\ built = [c \in Calls |-> NoEvent]
    /\ response = [c \in Calls |-> 0]
    /\ holder = 0
    /\ waiters = <<>>
    /\ clientQueue = <<>>
    /\ delivery = [c \in Calls |-> "none"]
    /\ topic = <<>>
    /\ lockReqs = <<>>
    /\ acquired = <<>>
    /\ submitted = <<>>
    /\ fIn = NoRequest
    /\ chainSteps = 0
    /\ \/ fOut = NoEvent /\ chainCount = <<"0">>
       \/ fOut = LateEvent /\ chainCount = LateCount

\* The snapshot of the next operation of the chain.
ChainSnapshot(id0) ==
    IF fOut = NoEvent
    THEN Product(id0, "Widget", "Gadget", None)
    ELSE Product(Some(fOut.val.id), fOut.val.name, fOut.val.type,
                 Some(fOut.val.version))

\* One more operation on the entity; a panic of the factory ends the chain.
ChainCall ==
    /\ chainSteps < MaxChain
    /\ fOut.kind # "panic"
    /\ \E id0 \in {None, Some("p1")}, op \in Ops, oc \in OverflowChecks :
          LET product == ChainSnapshot(id0)
              out     == create_event(product, EventTypeOf(op), UuidOf(1), oc)
          IN  /\ fIn' = [op |-> op, product |-> product, uuid |-> UuidOf(1),
                         overflowChecks |-> oc]
              /\ fOut' = out
              /\ chainCount' = IF out.kind = "ok" THEN DecSucc(chainCount)
                               ELSE chainCount
    /\ chainSteps' = chainSteps + 1
    /\ UNCHANGED pubVars

NextChain == ChainCall

SpecChain == InitChain /\ [][NextChain]_vars

\* C14: every operation of the chain produces an event, and the k-th
\* event of the chain has version "v" followed by k in decimal notation
\* (v1, v2, v3, ...): a positive integer, one more than the one before.
C14_VersionsCountUp ==
    chainSteps > 0 =>
        /\ fOut.kind = "ok"
        /\ IsVPositive(fOut.val.version)
        /\ fOut.val.version = <<"v">> \o chainCount

----------------------------------------------------------------------------
\* C16: at most one message handed to the producer is unanswered at any
\* time.
C16_AtMostOneUnacknowledged == Len(clientQueue) <= 1

\* C17: a call that has ended, by a panic on a failed send in particular,
\* does not own the lock: the owner, if any, is a call between acquiring
\* and releasing it, and a failing call leaves the lock to the first
\* waiter or free.
C17_FailureReleasesTheLock ==
    /\ holder # 0 => Holding(holder)
    /\ \A c \in Calls : pc[c] = "panicked" => holder # c
    /\ ~(holder = 0 /\ waiters # <<>>)

\* A call failed on a rejected send while another waited for the lock;
\* that other call then acquired the lock, published and was answered.
C17_Witness ==
    \E c, d \in Calls :
        /\ pc[c] = "panicked" /\ delivery[c] = "err"
        /\ PosIn(acquired, d) = PosIn(acquired, c) + 1
        /\ PosIn(lockReqs, d) > 0
        /\ pc[d] = "responded" /\ CountOf(topic, d) = 1

----------------------------------------------------------------------------
\* C18: a call whose snapshot has a malformed version fails in the step
\* that invokes it, and that step changes nothing else: the lock, its
\* queue, the producer's queue, the topic and every other call are as
\* before; the call never requests or owns the lock and never sends.
C18_MalformedFailsBeforeLock ==
    [][\A c \in Calls :
          /\ built'[c].kind = "panic" =>
                /\ pc'[c] = "panicked"
                /\ PosIn(lockReqs', c) = 0
                /\ PosIn(acquired', c) = 0
                /\ holder' # c
                /\ CountOf(submitted', c) = 0
                /\ CountOf(topic', c) = 0
          /\ (built[c] = NoEvent /\ built'[c].kind = "panic") =>
                /\ UNCHANGED <<holder, waiters, clientQueue, delivery, topic,
                               lockReqs, acquired, submitted, response>>
                /\ \A d \in Calls \ {c} : pc'[d] = pc[d]]_vars

\* A delete with the malformed version "ver" has failed while one call
\* owned the lock with its message unanswered and another waited; both
\* are where they were.
C18_Witness ==
    \E c \in Calls :
        /\ built[c].kind = "panic" /\ pc[c] = "panicked"
        /\ req[c].op = "delete"
        /\ holder # 0 /\ pc[holder] = "awaiting"
        /\ Len(clientQueue) = 1 /\ Len(waiters) = 1

----------------------------------------------------------------------------
\* Progress (checked under SpecLive).  The runtime polls every future that
\* can make a step (weak fairness of the steps of publish), and the broker
\* answers every message handed to the producer (the hypothesis of C19).
\* The lock needs no fairness condition: its queue is first in, first out.
\* Requests need not arrive and need not be cancelled.  The calls are
\* those of well-formed snapshots; the others end in the step that invokes
\* them and never touch the lock.

Fairness ==
    /\ \A c \in Calls : WF_vars(publish_lock(c))
    /\ \A c \in Calls : WF_vars(publish_send(c))
    /\ \A c \in Calls : WF_vars(publish_return(c))
    /\ \A c \in Calls : WF_vars(handler_respond(c))
    /\ \A c \in Calls : WF_vars(publish_panic(c))
    /\ WF_vars(BrokerAck \/ BrokerReject)

\* The requests whose snapshot is well formed: the calls C19 is about.
WellFormedRequests ==
    {r \in Requests :
        \A oc \in OverflowChecks :
            create_event(r.product, EventTypeOf(r.op), UuidOf(1), oc).kind
                = "ok"}

\* publish never reads the event it sends, so the fair runs fix which
\* well-formed request each call carries: creations and updates alternate.
LiveRequests(c) ==
    {r \in WellFormedRequests :
        r.op = IF c % 2 = 1 THEN "create" ELSE "update"}

NextLive ==
    \/ \E c \in Calls : InvokeWith(c, LiveRequests(c))
    \/ \E c \in Calls : publish_lock(c)
    \/ \E c \in Calls : publish_send(c)
    \/ BrokerAck
    \/ BrokerReject
    \/ \E c \in Calls : publish_return(c)
    \/ \E c \in Calls : handler_respond(c)
    \/ \E c \in Calls : publish_panic(c)
    \/ \E c \in Calls : Cancel(c)

SpecLive == Init /\ [][NextLive]_vars /\ Fairness

\* C19: every call that has built its event (its snapshot was well formed)
\* eventually returns or fails, unless it is cancelled.
C19_EveryCallEnds ==
    \A c \in Calls : (pc[c] = "publish") ~> Ended(c)

\* A call that waited for the lock behind two others has returned.
C19_Witness ==
    \E c \in Calls :
        /\ pc[c] = "responded"
        /\ PosIn(acquired, c) = 3
        /\ \A d \in Calls \ {c} : PosIn(lockReqs, d) < PosIn(lockReqs, c)
                                  /\ PosIn(lockReqs, d) > 0

====
